---- MODULE Spec2Model ----
(***************************************************************************)
(* Model of the fastapi-online-shop backend: the account store, the JWT    *)
(* issuing and verifying endpoints of app/routers/users.py, and the        *)
(* role-gated category / product / review handlers.                        *)
(*                                                                         *)
(* app/auth.py, app/config.py and app/models/users.py are not part of the  *)
(* available sources; the operators that stand for them (token issuing,    *)
(* password hashing, the principal resolver, the role gates, the unique    *)
(* e-mail column) follow sections 3 and 4 of the specification.            *)
(***************************************************************************)
EXTENDS Integers, Sequences, FiniteSets, TLC

(* ------------------------------ bounds --------------------------------- *)
MaxUsers == 2
MaxTokens == 2
MaxShopTokens == 1
MaxTime == 3
MaxReviews == 2
MaxRows == 1

(* Token lifetimes in clock ticks (REFRESH_TTL >> ACCESS_TTL in the code). *)
ACCESS_TTL == 1
REFRESH_TTL == 2

Procs == {1, 2}

Emails == {"a@x.com", "b@x.com"}
AuthEmails == {"a@x.com"}
AdminEmail == "root@x.com"
Passwords == {"password123", "hunter2hunter2"}
Roles == {"buyer", "seller", "admin"}

None == 0
NoSub == "<none>"
NoType == "<absent>"

VARIABLES users, now, issued, pend, categories, products, reviews, last

vars == <<users, now, issued, pend, categories, products, reviews, last>>
store == <<users, categories, products, reviews>>

(* ----------------------------- responses ------------------------------- *)
Http(status, detail, hdr) == [status |-> status, detail |-> detail, hdr |-> hdr]

OK200 == Http(200, "", "")
Created201 == Http(201, "", "")

\* users.py: credentials_exception of refresh_token and of access_token
credentials_exception == Http(401, "Could not validate refresh token", "Bearer")

\* users.py: the 401 raised by login
login_exception == Http(401, "Incorrect email or password", "Bearer")

\* auth.py: the 401 raised by get_current_user
auth_exception == Http(401, "Could not validate credentials", "Bearer")

Forbidden(detail) == Http(403, detail, "")
NotFound(detail) == Http(404, detail, "")
BadRequest(detail) == Http(400, detail, "")
Conflict(detail) == Http(409, detail, "")
\* an exception no handler catches (IntegrityError on commit)
ServerError == Http(500, "Internal Server Error", "")

(* ------------------------------ passwords ------------------------------ *)
hash_password(pw) == <<"hash", pw>>
verify_password(pw, hashed) == hash_password(pw) = hashed

(* ------------------------------- tokens -------------------------------- *)
Claims(u, id) == [sub |-> u.email, role |-> u.role, id |-> id]

create_access_token(data) ==
    [sub |-> data.sub, role |-> data.role, id |-> data.id,
     iat |-> now, exp |-> now + ACCESS_TTL, typ |-> NoType, sig |-> "ok"]

create_refresh_token(data) ==
    [sub |-> data.sub, role |-> data.role, id |-> data.id,
     iat |-> now, exp |-> now + REFRESH_TTL, typ |-> "refresh", sig |-> "ok"]

\* a token whose payload was edited by the client: the signature no longer fits
Tampered(t) == [t EXCEPT !.sig = "bad", !.typ = IF t.typ = "refresh" THEN NoType ELSE "refresh"]

\* what a client can put on the wire: anything the server issued, or a forgery
Presentable == issued \cup {Tampered(t) : t \in issued}

\* jwt.decode that skips the exp claim
jwt_decode_no_exp(t) ==
    IF t.sig # "ok" THEN [err |-> "invalid"]
    ELSE [err |-> "none", sub |-> t.sub, token_type |-> t.typ]

\* jwt.decode(token, SECRET_KEY, algorithms=[ALGORITHM]): the signature is
\* verified first, then the exp claim (expired once exp <= now).
jwt_decode(t) ==
    IF t.sig # "ok" THEN [err |-> "invalid"]
    ELSE IF t.exp <= now THEN [err |-> "expired"]
    ELSE [err |-> "none", sub |-> t.sub, token_type |-> t.typ]

(* ---------------------------- account store ---------------------------- *)
Min(S) == CHOOSE x \in S : \A y \in S : x <= y

\* select(UserModel).where(email == e, is_active == True) ... .first()
ActiveUserByEmail(e) ==
    LET S == {i \in DOMAIN users : users[i].email = e /\ users[i].is_active}
    IN  IF S = {} THEN 0 ELSE Min(S)

\* select(UserModel).where(email == e) ... .first()
UserByEmail(e) ==
    LET S == {i \in DOMAIN users : users[i].email = e}
    IN  IF S = {} THEN 0 ELSE Min(S)

\* select(UserModel).where(id == i, is_active == True) ... .first()
ActiveUserById(i) ==
    IF i \in DOMAIN users /\ users[i].is_active THEN i ELSE 0

NewUser(email, pw, role) ==
    [email |-> email, hashed_password |-> hash_password(pw), role |-> role, is_active |-> TRUE]

Idle == [op |-> "idle"]

\* record of the most recently completed request
Done(op, tok, arg, resp, cause, minted, uid, log) ==
    [op |-> op, tok |-> tok, arg |-> arg, status |-> resp.status, detail |-> resp.detail,
     hdr |-> resp.hdr, cause |-> cause, minted |-> minted, uid |-> uid, log |-> log]

\* a request that carries no bearer token; sub names the e-mail in its body
NoTok ==
    [sub |-> NoSub, role |-> "", id |-> 0, iat |-> 0, exp |-> 0, typ |-> NoType,
     sig |-> "absent"]
Body(email) == [NoTok EXCEPT !.sub = email]

(* ------------------------- principal resolver -------------------------- *)
\* auth.py get_current_user (specification 4.4): verify the bearer token as an
\* access token, then load the active account named by its sub claim.
get_current_user(tok) ==
    LET d == jwt_decode(tok) IN
    IF d.err = "invalid"
      THEN [resp |-> auth_exception, cause |-> "malformed", uid |-> 0, log |-> <<"token">>]
    ELSE IF d.err = "expired"
      THEN [resp |-> auth_exception, cause |-> "expired", uid |-> 0, log |-> <<"token">>]
    ELSE IF d.sub = NoSub \/ d.token_type \notin {NoType, "access"}
      THEN [resp |-> auth_exception, cause |-> "wrong_type", uid |-> 0, log |-> <<"token">>]
    ELSE LET u == ActiveUserByEmail(d.sub) IN
         IF u = 0
           THEN [resp |-> auth_exception, cause |-> "no_account", uid |-> 0,
                 log |-> <<"token", "account">>]
           ELSE [resp |-> OK200, cause |-> "none", uid |-> u,
                 log |-> <<"token", "account">>]

\* auth.py get_current_admin / get_current_seller / get_current_buyer
\* (specification 4.5): resolve, then 403 unless the account's role matches.
require_role(role, tok) ==
    LET r == get_current_user(tok) IN
    IF r.resp.status # 200 THEN r
    ELSE IF users[r.uid].role # role
      THEN [r EXCEPT !.resp = Forbidden("Not enough permissions"), !.cause = "role",
                     !.log = Append(r.log, "role")]
      ELSE [r EXCEPT !.log = Append(r.log, "role")]

get_current_admin(tok) == require_role("admin", tok)
get_current_seller(tok) == require_role("seller", tok)
get_current_buyer(tok) == require_role("buyer", tok)

(* --------------------------- users endpoints --------------------------- *)
\* the tokens clients hold after a response that carries the tokens in minted:
\* everything, or, beyond cap, any cap of them
Held(minted, cap) ==
    LET all == issued \cup minted IN
    IF Cardinality(all) <= cap THEN {all}
    ELSE {K \in SUBSET all : Cardinality(K) = cap}

\* schemas.py UserCreate: role matches ^(buyer|seller)$
UserCreate_role(role) == role \in {"buyer", "seller"}

\* schemas.py UserUpdate: role matches ^(buyer|seller|admin)$
UserUpdate_role(role) == role \in {"buyer", "seller", "admin"}

\* a request body the schema rejects
Unprocessable == Http(422, "validation error", "")

\* POST /users/ : body validation and the existence check, up to the first
\* await after it
create_user_select(p, email, pw, role) ==
    /\ pend[p] = Idle
    /\ IF ~UserCreate_role(role)
         THEN /\ last' = Done("create_user", Body(email), None, Unprocessable, "validation",
                              {}, 0, <<>>)
              /\ UNCHANGED pend
       ELSE IF UserByEmail(email) # 0
         THEN /\ last' = Done("create_user", Body(email), None, Conflict("Email already registered"),
                              "duplicate", {}, 0, <<>>)
              /\ UNCHANGED pend
         ELSE /\ pend' = [pend EXCEPT ![p] = [op |-> "create_user", email |-> email,
                                               pw |-> pw, role |-> role]]
              /\ UNCHANGED last
    /\ UNCHANGED <<users, now, issued, categories, products, reviews>>

\* the users table: INSERT of a row; the e-mail column is unique, a duplicate
\* makes the commit fail
InsertUser(row) ==
    IF UserByEmail(row.email) # 0 THEN users ELSE Append(users, row)

\* POST /users/ : db.add(db_user); await db.commit()
create_user_commit(p) ==
    /\ pend[p] # Idle
    /\ pend[p].op = "create_user"
    /\ LET row == NewUser(pend[p].email, pend[p].pw, pend[p].role) IN
       /\ users' = InsertUser(row)
       /\ last' = IF users' = users
                    THEN Done("create_user", Body(pend[p].email), None, ServerError, "integrity", {}, 0, <<>>)
                    ELSE Done("create_user", Body(pend[p].email), None, Created201, "none", {}, Len(users'), <<>>)
    /\ pend' = [pend EXCEPT ![p] = Idle]
    /\ UNCHANGED <<now, issued, categories, products, reviews>>

\* login whose lookup leaves out the is_active filter
login_result_any_account(username, password) ==
    LET u == UserByEmail(username) IN
    IF u = 0 \/ ~verify_password(password, users[u].hashed_password)
      THEN [resp |-> login_exception, cause |-> "credentials", minted |-> {}, uid |-> 0]
      ELSE [resp |-> OK200, cause |-> "none", uid |-> u,
            minted |-> {create_access_token(Claims(users[u], u)),
                        create_refresh_token(Claims(users[u], u))}]

\* POST /users/token
login_result(username, password) ==
    LET u == ActiveUserByEmail(username) IN
    IF u = 0 \/ ~verify_password(password, users[u].hashed_password)
      THEN [resp |-> login_exception, cause |-> "credentials", minted |-> {}, uid |-> 0]
      ELSE [resp |-> OK200, cause |-> "none", uid |-> u,
            minted |-> {create_access_token(Claims(users[u], u)),
                        create_refresh_token(Claims(users[u], u))}]

login(username, password) ==
    LET r == login_result(username, password) IN
    /\ last' = Done("login", Body(username), None, r.resp, r.cause, r.minted, r.uid, <<>>)
    /\ UNCHANGED <<users, now, pend, categories, products, reviews>>

\* the try block with single-use refresh tokens: the token of the previous
\* successful refresh is refused
RefreshPayload_single_use(tok) ==
    LET d == jwt_decode(tok) IN
    IF d.err = "invalid" THEN [cause |-> "malformed", sub |-> NoSub]
    ELSE IF d.err = "expired" THEN [cause |-> "expired", sub |-> NoSub]
    ELSE IF d.sub = NoSub \/ d.token_type # "refresh" THEN [cause |-> "wrong_type", sub |-> NoSub]
    ELSE IF last.op = "refresh_token" /\ last.status = 200 /\ last.tok = tok
      THEN [cause |-> "malformed", sub |-> NoSub]
    ELSE [cause |-> "none", sub |-> d.sub]

\* the try block without the token_type test
RefreshPayload_untyped(tok) ==
    LET d == jwt_decode(tok) IN
    IF d.err = "invalid" THEN [cause |-> "malformed", sub |-> NoSub]
    ELSE IF d.err = "expired" THEN [cause |-> "expired", sub |-> NoSub]
    ELSE IF d.sub = NoSub THEN [cause |-> "wrong_type", sub |-> NoSub]
    ELSE [cause |-> "none", sub |-> d.sub]

\* the try block of refresh_token and of access_token: decode, then require
\* a sub claim and token_type == "refresh"
RefreshPayload(tok) ==
    LET d == jwt_decode(tok) IN
    IF d.err = "invalid" THEN [cause |-> "malformed", sub |-> NoSub]
    ELSE IF d.err = "expired" THEN [cause |-> "expired", sub |-> NoSub]
    ELSE IF d.sub = NoSub \/ d.token_type # "refresh" THEN [cause |-> "wrong_type", sub |-> NoSub]
    ELSE [cause |-> "none", sub |-> d.sub]

\* refresh_token whose account lookup drops the is_active filter
refresh_token_result_any_account(tok) ==
    LET pl == RefreshPayload(tok) IN
    IF pl.cause # "none"
      THEN [resp |-> credentials_exception, cause |-> pl.cause, minted |-> {}, uid |-> 0]
    ELSE LET u == UserByEmail(pl.sub) IN
         IF u = 0
           THEN [resp |-> credentials_exception, cause |-> "no_account", minted |-> {}, uid |-> 0]
           ELSE [resp |-> OK200, cause |-> "none", uid |-> u,
                 minted |-> {create_refresh_token(Claims(users[u], u))}]

\* refresh_token that copies the claims of the presented token
refresh_token_result_copy_claims(tok) ==
    LET pl == RefreshPayload(tok) IN
    IF pl.cause # "none"
      THEN [resp |-> credentials_exception, cause |-> pl.cause, minted |-> {}, uid |-> 0]
    ELSE LET u == ActiveUserByEmail(pl.sub) IN
         IF u = 0
           THEN [resp |-> credentials_exception, cause |-> "no_account", minted |-> {}, uid |-> 0]
           ELSE [resp |-> OK200, cause |-> "none", uid |-> u,
                 minted |-> {create_refresh_token([sub |-> tok.sub, role |-> tok.role,
                                                   id |-> tok.id])}]

\* POST /users/refresh-token
refresh_token_result(tok) ==
    LET pl == RefreshPayload(tok) IN
    IF pl.cause # "none"
      THEN [resp |-> credentials_exception, cause |-> pl.cause, minted |-> {}, uid |-> 0]
    ELSE LET u == ActiveUserByEmail(pl.sub) IN
         IF u = 0
           THEN [resp |-> credentials_exception, cause |-> "no_account", minted |-> {}, uid |-> 0]
           ELSE [resp |-> OK200, cause |-> "none", uid |-> u,
                 minted |-> {create_refresh_token(Claims(users[u], u))}]

refresh_token(tok) ==
    LET r == refresh_token_result(tok) IN
    /\ last' = Done("refresh_token", tok, None, r.resp, r.cause, r.minted, r.uid, <<>>)
    /\ UNCHANGED <<users, now, pend, categories, products, reviews>>

\* access_token that reports an expired token with its own message
access_token_result_leaky(tok) ==
    LET pl == RefreshPayload(tok) IN
    IF pl.cause = "expired"
      THEN [resp |-> Http(401, "Refresh token expired", "Bearer"), cause |-> pl.cause,
            minted |-> {}, uid |-> 0]
    ELSE IF pl.cause # "none"
      THEN [resp |-> credentials_exception, cause |-> pl.cause, minted |-> {}, uid |-> 0]
    ELSE LET u == ActiveUserByEmail(pl.sub) IN
         IF u = 0
           THEN [resp |-> credentials_exception, cause |-> "no_account", minted |-> {}, uid |-> 0]
           ELSE [resp |-> OK200, cause |-> "none", uid |-> u,
                 minted |-> {create_access_token(Claims(users[u], u))}]

\* POST /users/access-token
access_token_result(tok) ==
    LET pl == RefreshPayload(tok) IN
    IF pl.cause # "none"
      THEN [resp |-> credentials_exception, cause |-> pl.cause, minted |-> {}, uid |-> 0]
    ELSE LET u == ActiveUserByEmail(pl.sub) IN
         IF u = 0
           THEN [resp |-> credentials_exception, cause |-> "no_account", minted |-> {}, uid |-> 0]
           ELSE [resp |-> OK200, cause |-> "none", uid |-> u,
                 minted |-> {create_access_token(Claims(users[u], u))}]

access_token(tok) ==
    LET r == access_token_result(tok) IN
    /\ last' = Done("access_token", tok, None, r.resp, r.cause, r.minted, r.uid, <<>>)
    /\ UNCHANGED <<users, now, pend, categories, products, reviews>>

\* update_role open to any authenticated account
update_role_current_user_any(tok) == get_current_user(tok)

\* update_role: current_user = Depends(get_current_admin)
update_role_current_user(tok) == get_current_admin(tok)

\* PUT /users/{user_id}
update_role(tok, user_id, role) ==
    LET g == update_role_current_user(tok) IN
    /\ IF g.resp.status # 200
         THEN /\ last' = Done("update_role", tok, user_id, g.resp, g.cause, {}, g.uid, g.log)
              /\ UNCHANGED users
         ELSE IF ActiveUserById(user_id) = 0
           THEN /\ last' = Done("update_role", tok, user_id, NotFound("User not found or inactive"),
                                "missing", {}, g.uid, Append(g.log, "exists"))
                /\ UNCHANGED users
           ELSE /\ users' = [users EXCEPT ![user_id].role = role]
                /\ last' = Done("update_role", tok, user_id, OK200, "none", {}, g.uid,
                                g.log \o <<"exists", "write">>)
    /\ UNCHANGED <<now, issued, pend, categories, products, reviews>>

(* ------------------------- shop store helpers -------------------------- *)
Names == {"tea", "mug"}
Grades == {2, 5, 7}

\* the category lookup without the is_active filter
ActiveCategory_unfiltered(i) == i \in DOMAIN categories

\* select(CategoryModel).where(id == i, is_active == True) ... .first()
ActiveCategory(i) == i \in DOMAIN categories /\ categories[i].is_active

\* select(ProductModel).where(id == i, is_active == True) ... .first()
ActiveProduct(i) == i \in DOMAIN products /\ products[i].is_active

\* select(ReviewModel).where(id == i, is_active == True) ... .first()
ActiveReview(i) == i \in DOMAIN reviews /\ reviews[i].is_active

RECURSIVE Gcd(_, _)
Gcd(a, b) == IF b = 0 THEN a ELSE Gcd(b, a % b)

RECURSIVE SumGrades(_, _)
SumGrades(rs, S) ==
    IF S = {} THEN 0
    ELSE LET i == Min(S) IN rs[i].grade + SumGrades(rs, S \ {i})

\* select(func.avg(grade)).where(product_id == pid, is_active) ... or 0.0,
\* as a fraction <<numerator, denominator>> in lowest terms
AvgRating(rs, pid) ==
    LET S == {i \in DOMAIN rs : rs[i].product_id = pid /\ rs[i].is_active}
        n == Cardinality(S)
        t == SumGrades(rs, S)
    IN  IF n = 0 THEN <<0, 1>> ELSE <<t \div Gcd(t, n), n \div Gcd(t, n)>>

\* reviews.py update_product_rating
update_product_rating(ps, rs, pid) == [ps EXCEPT ![pid].rating = AvgRating(rs, pid)]

\* the response of a gated request that ended after the dependency g and the
\* checks in more
Answer(op, tok, arg, g, resp, cause, more) ==
    Done(op, tok, arg, resp, cause, {}, g.uid, g.log \o more)

(* ------------------------- categories endpoints ------------------------ *)
\* create_category: current_user = Depends(get_current_admin)
create_category_current_user(tok) == get_current_admin(tok)

\* POST /categories/
create_category(tok, name, parent_id) ==
    LET g == create_category_current_user(tok) IN
    /\ IF g.resp.status # 200
         THEN /\ last' = Answer("create_category", tok, parent_id, g, g.resp, g.cause, <<>>)
              /\ UNCHANGED categories
         ELSE IF parent_id # None /\ ~ActiveCategory(parent_id)
           THEN /\ last' = Answer("create_category", tok, parent_id, g, BadRequest("Parent category not found"),
                                  "parent", <<"parent">>)
                /\ UNCHANGED categories
           ELSE /\ categories' = Append(categories,
                       [name |-> name, parent_id |-> parent_id, is_active |-> TRUE])
                /\ last' = Answer("create_category", tok, parent_id, g, Created201, "none",
                                  <<"parent", "write">>)
    /\ UNCHANGED <<users, now, issued, pend, products, reviews>>

\* update_category: current_user = Depends(get_current_admin)
update_category_current_user(tok) == get_current_admin(tok)

\* PUT /categories/{category_id}
update_category(tok, category_id, name, parent_id) ==
    LET g == update_category_current_user(tok) IN
    /\ IF g.resp.status # 200
         THEN /\ last' = Answer("update_category", tok, category_id, g, g.resp, g.cause, <<>>)
              /\ UNCHANGED categories
         ELSE IF ~ActiveCategory(category_id)
           THEN /\ last' = Answer("update_category", tok, category_id, g, NotFound("Category not found"),
                                  "missing", <<"exists">>)
                /\ UNCHANGED categories
         ELSE IF parent_id # None /\ ~ActiveCategory(parent_id)
           THEN /\ last' = Answer("update_category", tok, category_id, g, BadRequest("Parent category not found"),
                                  "parent", <<"exists", "parent">>)
                /\ UNCHANGED categories
         ELSE IF parent_id # None /\ parent_id = category_id
           THEN /\ last' = Answer("update_category", tok, category_id, g,
                                  BadRequest("Category cannot be its own parent"),
                                  "parent", <<"exists", "parent">>)
                /\ UNCHANGED categories
           ELSE /\ categories' = [categories EXCEPT ![category_id].name = name,
                                                    ![category_id].parent_id = parent_id]
                /\ last' = Answer("update_category", tok, category_id, g, OK200, "none",
                                  <<"exists", "parent", "write">>)
    /\ UNCHANGED <<users, now, issued, pend, products, reviews>>

\* delete_category: current_user = Depends(get_current_admin)
delete_category_current_user(tok) == get_current_admin(tok)

\* DELETE /categories/{category_id}
delete_category(tok, category_id) ==
    LET g == delete_category_current_user(tok) IN
    /\ IF g.resp.status # 200
         THEN /\ last' = Answer("delete_category", tok, category_id, g, g.resp, g.cause, <<>>)
              /\ UNCHANGED categories
         ELSE IF ~ActiveCategory(category_id)
           THEN /\ last' = Answer("delete_category", tok, category_id, g, NotFound("Category not found"),
                                  "missing", <<"exists">>)
                /\ UNCHANGED categories
           ELSE /\ categories' = [categories EXCEPT ![category_id].is_active = FALSE]
                /\ last' = Answer("delete_category", tok, category_id, g, OK200, "none", <<"exists", "write">>)
    /\ UNCHANGED <<users, now, issued, pend, products, reviews>>

(* -------------------------- products endpoints ------------------------- *)
\* create_product open to any authenticated account
create_product_current_user_any(tok) == get_current_user(tok)

\* create_product: current_user = Depends(get_current_seller)
create_product_current_user(tok) == get_current_seller(tok)

\* POST /products/
create_product(tok, name, category_id) ==
    LET g == create_product_current_user(tok) IN
    /\ IF g.resp.status # 200
         THEN /\ last' = Answer("create_product", tok, category_id, g, g.resp, g.cause, <<>>)
              /\ UNCHANGED products
         ELSE IF ~ActiveCategory(category_id)
           THEN /\ last' = Answer("create_product", tok, category_id, g, NotFound("Category not found"),
                                  "category", <<"category">>)
                /\ UNCHANGED products
           ELSE /\ products' = Append(products,
                       [name |-> name, category_id |-> category_id, seller_id |-> g.uid,
                        rating |-> <<0, 1>>, is_active |-> TRUE])
                /\ last' = Answer("create_product", tok, category_id, g, Created201, "none",
                                  <<"category", "write">>)
    /\ UNCHANGED <<users, now, issued, pend, categories, reviews>>

\* update_product open to any authenticated account
update_product_current_user_any(tok) == get_current_user(tok)

\* update_product: current_user = Depends(get_current_seller)
update_product_current_user(tok) == get_current_seller(tok)

\* update_product without the comparison of seller_id with the caller's id
update_product_any_seller(tok, product_id, name, category_id) ==
    LET g == update_product_current_user(tok) IN
    /\ IF g.resp.status # 200
         THEN /\ last' = Answer("update_product", tok, product_id, g, g.resp, g.cause, <<>>)
              /\ UNCHANGED products
         ELSE IF ~ActiveProduct(product_id)
           THEN /\ last' = Answer("update_product", tok, product_id, g, NotFound("Product not found or inactive"),
                                  "missing", <<"exists">>)
                /\ UNCHANGED products
         ELSE IF ~ActiveCategory(category_id)
           THEN /\ last' = Answer("update_product", tok, product_id, g,
                                  BadRequest("Category for product not found or inactive"),
                                  "category", <<"exists", "owner", "category">>)
                /\ UNCHANGED products
           ELSE /\ products' = [products EXCEPT ![product_id].name = name,
                                                ![product_id].category_id = category_id]
                /\ last' = Answer("update_product", tok, product_id, g, OK200, "none",
                                  <<"exists", "owner", "category", "write">>)
    /\ UNCHANGED <<users, now, issued, pend, categories, reviews>>

\* PUT /products/{product_id}
update_product(tok, product_id, name, category_id) ==
    LET g == update_product_current_user(tok) IN
    /\ IF g.resp.status # 200
         THEN /\ last' = Answer("update_product", tok, product_id, g, g.resp, g.cause, <<>>)
              /\ UNCHANGED products
         ELSE IF ~ActiveProduct(product_id)
           THEN /\ last' = Answer("update_product", tok, product_id, g, NotFound("Product not found or inactive"),
                                  "missing", <<"exists">>)
                /\ UNCHANGED products
         ELSE IF products[product_id].seller_id # g.uid
           THEN /\ last' = Answer("update_product", tok, product_id, g,
                                  Forbidden("You can only update your own products"),
                                  "owner", <<"exists", "owner">>)
                /\ UNCHANGED products
         ELSE IF ~ActiveCategory(category_id)
           THEN /\ last' = Answer("update_product", tok, product_id, g,
                                  BadRequest("Category for product not found or inactive"),
                                  "category", <<"exists", "owner", "category">>)
                /\ UNCHANGED products
           ELSE /\ products' = [products EXCEPT ![product_id].name = name,
                                                ![product_id].category_id = category_id]
                /\ last' = Answer("update_product", tok, product_id, g, OK200, "none",
                                  <<"exists", "owner", "category", "write">>)
    /\ UNCHANGED <<users, now, issued, pend, categories, reviews>>

\* delete_product: current_user = Depends(get_current_seller)
delete_product_current_user(tok) == get_current_seller(tok)

\* DELETE /products/{product_id}
delete_product(tok, product_id) ==
    LET g == delete_product_current_user(tok) IN
    /\ IF g.resp.status # 200
         THEN /\ last' = Answer("delete_product", tok, product_id, g, g.resp, g.cause, <<>>)
              /\ UNCHANGED products
         ELSE IF ~ActiveProduct(product_id)
           THEN /\ last' = Answer("delete_product", tok, product_id, g, NotFound("Product not found or inactive"),
                                  "missing", <<"exists">>)
                /\ UNCHANGED products
         ELSE IF products[product_id].seller_id # g.uid
           THEN /\ last' = Answer("delete_product", tok, product_id, g,
                                  Forbidden("You can only delete your own products"),
                                  "owner", <<"exists", "owner">>)
                /\ UNCHANGED products
           ELSE /\ products' = [products EXCEPT ![product_id].is_active = FALSE]
                /\ last' = Answer("delete_product", tok, product_id, g, OK200, "none",
                                  <<"exists", "owner", "write">>)
    /\ UNCHANGED <<users, now, issued, pend, categories, reviews>>

(* --------------------------- reviews endpoints ------------------------- *)
\* reviews table: CheckConstraint('grade >= 1 AND grade <= 5')
check_grade_range(grade) == grade >= 1 /\ grade <= 5

\* create_review gated on the role claim of the presented token
create_review_current_user_by_claim(tok) ==
    LET r == get_current_user(tok) IN
    IF r.resp.status # 200 THEN r
    ELSE IF tok.role # "buyer"
      THEN [r EXCEPT !.resp = Forbidden("Not enough permissions"), !.cause = "role",
                     !.log = Append(r.log, "role")]
      ELSE [r EXCEPT !.log = Append(r.log, "role")]

\* create_review: current_user = Depends(get_current_buyer)
create_review_current_user(tok) == get_current_buyer(tok)

\* POST /reviews/
create_review(tok, product_id, grade) ==
    LET g == create_review_current_user(tok) IN
    /\ IF g.resp.status # 200
         THEN /\ last' = Answer("create_review", tok, product_id, g, g.resp, g.cause, <<>>)
              /\ UNCHANGED <<reviews, products>>
         ELSE IF ~ActiveProduct(product_id)
           THEN /\ last' = Answer("create_review", tok, product_id, g, NotFound("Product not found or inactive"),
                                  "missing", <<"exists">>)
                /\ UNCHANGED <<reviews, products>>
         ELSE IF \E i \in DOMAIN reviews : /\ reviews[i].product_id = product_id
                                           /\ reviews[i].user_id = g.uid
                                           /\ reviews[i].is_active
           THEN /\ last' = Answer("create_review", tok, product_id, g, Conflict("You already left review"),
                                  "duplicate", <<"exists", "duplicate">>)
                /\ UNCHANGED <<reviews, products>>
         ELSE IF ~check_grade_range(grade)
           THEN /\ last' = Answer("create_review", tok, product_id, g, ServerError, "integrity",
                                  <<"exists", "duplicate">>)
                /\ UNCHANGED <<reviews, products>>
           ELSE /\ reviews' = Append(reviews,
                       [user_id |-> g.uid, product_id |-> product_id, grade |-> grade,
                        is_active |-> TRUE])
                /\ products' = update_product_rating(products, reviews', product_id)
                /\ last' = Answer("create_review", tok, product_id, g, Created201, "none",
                                  <<"exists", "duplicate", "write">>)
    /\ UNCHANGED <<users, now, issued, pend, categories>>

\* update_review: current_user = Depends(get_current_buyer)
update_review_current_user(tok) == get_current_buyer(tok)

\* PUT /reviews/{review_id}
update_review(tok, review_id, product_id, grade) ==
    LET g == update_review_current_user(tok) IN
    /\ IF g.resp.status # 200
         THEN /\ last' = Answer("update_review", tok, review_id, g, g.resp, g.cause, <<>>)
              /\ UNCHANGED <<reviews, products>>
         ELSE IF ~ActiveReview(review_id)
           THEN /\ last' = Answer("update_review", tok, review_id, g, NotFound("Review not found or inactive"),
                                  "missing", <<"exists">>)
                /\ UNCHANGED <<reviews, products>>
         ELSE IF reviews[review_id].user_id # g.uid
           THEN /\ last' = Answer("update_review", tok, review_id, g, Forbidden("No rights to change review"),
                                  "owner", <<"exists", "owner">>)
                /\ UNCHANGED <<reviews, products>>
         ELSE IF product_id \notin DOMAIN products \/ ~check_grade_range(grade)
           THEN /\ last' = Answer("update_review", tok, review_id, g, ServerError, "integrity",
                                  <<"exists", "owner">>)
                /\ UNCHANGED <<reviews, products>>
           ELSE /\ reviews' = [reviews EXCEPT ![review_id].product_id = product_id,
                                              ![review_id].grade = grade]
                /\ products' = update_product_rating(products, reviews', product_id)
                /\ last' = Answer("update_review", tok, review_id, g, OK200, "none",
                                  <<"exists", "owner", "write">>)
    /\ UNCHANGED <<users, now, issued, pend, categories>>

\* delete_review: current_user = Depends(get_current_user)
delete_review_current_user(tok) == get_current_user(tok)

\* delete_review that lets the author delete whatever the author's role is
delete_review_author_any_role(tok, review_id) ==
    LET g == delete_review_current_user(tok) IN
    /\ IF g.resp.status # 200
         THEN /\ last' = Answer("delete_review", tok, review_id, g, g.resp, g.cause, <<>>)
              /\ UNCHANGED <<reviews, products>>
         ELSE IF ~ActiveReview(review_id)
           THEN /\ last' = Answer("delete_review", tok, review_id, g, NotFound("Review not found or inactive"),
                                  "missing", <<"exists">>)
                /\ UNCHANGED <<reviews, products>>
         ELSE IF /\ ~(reviews[review_id].user_id = g.uid)
                 /\ ~(users[g.uid].role = "admin")
           THEN /\ last' = Answer("delete_review", tok, review_id, g, Forbidden("No rights to delete review"),
                                  "role", <<"exists", "role">>)
                /\ UNCHANGED <<reviews, products>>
           ELSE /\ reviews' = [reviews EXCEPT ![review_id].is_active = FALSE]
                /\ products' = update_product_rating(products, reviews',
                                                     reviews[review_id].product_id)
                /\ last' = Answer("delete_review", tok, review_id, g, OK200, "none",
                                  <<"exists", "role", "write">>)
    /\ UNCHANGED <<users, now, issued, pend, categories>>

\* DELETE /reviews/{review_id}
delete_review(tok, review_id) ==
    LET g == delete_review_current_user(tok) IN
    /\ IF g.resp.status # 200
         THEN /\ last' = Answer("delete_review", tok, review_id, g, g.resp, g.cause, <<>>)
              /\ UNCHANGED <<reviews, products>>
         ELSE IF ~ActiveReview(review_id)
           THEN /\ last' = Answer("delete_review", tok, review_id, g, NotFound("Review not found or inactive"),
                                  "missing", <<"exists">>)
                /\ UNCHANGED <<reviews, products>>
         ELSE IF /\ ~(reviews[review_id].user_id = g.uid /\ users[g.uid].role = "buyer")
                 /\ ~(users[g.uid].role = "admin")
           THEN /\ last' = Answer("delete_review", tok, review_id, g, Forbidden("No rights to delete review"),
                                  "role", <<"exists", "role">>)
                /\ UNCHANGED <<reviews, products>>
           ELSE /\ reviews' = [reviews EXCEPT ![review_id].is_active = FALSE]
                /\ products' = update_product_rating(products, reviews',
                                                     reviews[review_id].product_id)
                /\ last' = Answer("delete_review", tok, review_id, g, OK200, "none",
                                  <<"exists", "role", "write">>)
    /\ UNCHANGED <<users, now, issued, pend, categories>>

(* ------------- reviews endpoints, one awaited step at a time ----------- *)
\* a review request of process p that has passed its checks and awaits its
\* write (stage "write"), the average (stage "avg") or the rating write
\* (stage "rating")
Pending(op, stage, tok, arg, g, log, product_id, grade, avg) ==
    [op |-> op, stage |-> stage, tok |-> tok, arg |-> arg, uid |-> g, log |-> log,
     product_id |-> product_id, grade |-> grade, avg |-> avg]

AtStage(p, op, stage) == pend[p] # Idle /\ pend[p].op = op /\ pend[p].stage = stage

\* POST /reviews/ : the gate, the product lookup and the duplicate check
create_review_select(p, tok, product_id, grade) ==
    LET g == create_review_current_user(tok) IN
    /\ pend[p] = Idle
    /\ IF g.resp.status # 200
         THEN /\ last' = Answer("create_review", tok, product_id, g, g.resp, g.cause, <<>>)
              /\ UNCHANGED pend
         ELSE IF ~ActiveProduct(product_id)
           THEN /\ last' = Answer("create_review", tok, product_id, g, NotFound("Product not found or inactive"),
                                  "missing", <<"exists">>)
                /\ UNCHANGED pend
         ELSE IF \E i \in DOMAIN reviews : /\ reviews[i].product_id = product_id
                                           /\ reviews[i].user_id = g.uid
                                           /\ reviews[i].is_active
           THEN /\ last' = Answer("create_review", tok, product_id, g, Conflict("You already left review"),
                                  "duplicate", <<"exists", "duplicate">>)
                /\ UNCHANGED pend
           ELSE /\ pend' = [pend EXCEPT ![p] =
                              Pending("create_review", "write", tok, product_id, g.uid,
                                      g.log \o <<"exists", "duplicate">>, product_id, grade, <<0, 1>>)]
                /\ UNCHANGED last
    /\ UNCHANGED <<users, now, issued, categories, products, reviews>>

\* POST /reviews/ : db.add(db_review); await db.commit(); await db.refresh
create_review_insert(p) ==
    /\ AtStage(p, "create_review", "write")
    /\ LET r == pend[p] IN
       IF ~check_grade_range(r.grade)
         THEN /\ last' = Done("create_review", r.tok, r.arg, ServerError, "integrity", {},
                              r.uid, r.log)
              /\ pend' = [pend EXCEPT ![p] = Idle]
              /\ UNCHANGED reviews
         ELSE /\ reviews' = Append(reviews,
                     [user_id |-> r.uid, product_id |-> r.product_id, grade |-> r.grade,
                      is_active |-> TRUE])
              /\ pend' = [pend EXCEPT ![p] = [r EXCEPT !.stage = "avg",
                                                       !.log = Append(r.log, "write")]]
              /\ UNCHANGED last
    /\ UNCHANGED <<users, now, issued, categories, products>>

\* PUT /reviews/{review_id} : the gate, the review lookup and the author check
update_review_select(p, tok, review_id, product_id, grade) ==
    LET g == update_review_current_user(tok) IN
    /\ pend[p] = Idle
    /\ IF g.resp.status # 200
         THEN /\ last' = Answer("update_review", tok, review_id, g, g.resp, g.cause, <<>>)
              /\ UNCHANGED pend
         ELSE IF ~ActiveReview(review_id)
           THEN /\ last' = Answer("update_review", tok, review_id, g, NotFound("Review not found or inactive"),
                                  "missing", <<"exists">>)
                /\ UNCHANGED pend
         ELSE IF reviews[review_id].user_id # g.uid
           THEN /\ last' = Answer("update_review", tok, review_id, g, Forbidden("No rights to change review"),
                                  "owner", <<"exists", "owner">>)
                /\ UNCHANGED pend
           ELSE /\ pend' = [pend EXCEPT ![p] =
                              Pending("update_review", "write", tok, review_id, g.uid,
                                      g.log \o <<"exists", "owner">>, product_id, grade, <<0, 1>>)]
                /\ UNCHANGED last
    /\ UNCHANGED <<users, now, issued, categories, products, reviews>>

\* PUT /reviews/{review_id} : update(ReviewModel).where(id == review_id)
\* .values(body); await db.commit(); await db.refresh(db_review)
update_review_write(p) ==
    /\ AtStage(p, "update_review", "write")
    /\ LET r == pend[p] IN
       IF r.product_id \notin DOMAIN products \/ ~check_grade_range(r.grade)
         THEN /\ last' = Done("update_review", r.tok, r.arg, ServerError, "integrity", {},
                              r.uid, r.log)
              /\ pend' = [pend EXCEPT ![p] = Idle]
              /\ UNCHANGED reviews
         ELSE /\ reviews' = [reviews EXCEPT ![r.arg].product_id = r.product_id,
                                            ![r.arg].grade = r.grade]
              /\ pend' = [pend EXCEPT ![p] = [r EXCEPT !.stage = "avg",
                                                       !.log = Append(r.log, "write")]]
              /\ UNCHANGED last
    /\ UNCHANGED <<users, now, issued, categories, products>>

\* DELETE /reviews/{review_id} : the resolver, the review lookup and the
\* role and authorship check; db_review keeps the product_id read here
delete_review_select(p, tok, review_id) ==
    LET g == delete_review_current_user(tok) IN
    /\ pend[p] = Idle
    /\ IF g.resp.status # 200
         THEN /\ last' = Answer("delete_review", tok, review_id, g, g.resp, g.cause, <<>>)
              /\ UNCHANGED pend
         ELSE IF ~ActiveReview(review_id)
           THEN /\ last' = Answer("delete_review", tok, review_id, g, NotFound("Review not found or inactive"),
                                  "missing", <<"exists">>)
                /\ UNCHANGED pend
         ELSE IF /\ ~(reviews[review_id].user_id = g.uid /\ users[g.uid].role = "buyer")
                 /\ ~(users[g.uid].role = "admin")
           THEN /\ last' = Answer("delete_review", tok, review_id, g, Forbidden("No rights to delete review"),
                                  "role", <<"exists", "role">>)
                /\ UNCHANGED pend
           ELSE /\ pend' = [pend EXCEPT ![p] =
                              Pending("delete_review", "write", tok, review_id, g.uid,
                                      g.log \o <<"exists", "role">>,
                                      reviews[review_id].product_id, reviews[review_id].grade,
                                      <<0, 1>>)]
                /\ UNCHANGED last
    /\ UNCHANGED <<users, now, issued, categories, products, reviews>>

\* DELETE /reviews/{review_id} : db_review.is_active = False; await db.commit()
delete_review_write(p) ==
    /\ AtStage(p, "delete_review", "write")
    /\ LET r == pend[p] IN
       /\ reviews' = [reviews EXCEPT ![r.arg].is_active = FALSE]
       /\ pend' = [pend EXCEPT ![p] = [r EXCEPT !.stage = "avg", !.log = Append(r.log, "write")]]
    /\ UNCHANGED <<users, now, issued, categories, products, last>>

\* update_product_rating : await db.execute(select(func.avg(grade)) ...)
update_product_rating_select(p) ==
    /\ pend[p] # Idle
    /\ pend[p].op \in {"create_review", "update_review", "delete_review"}
    /\ pend[p].stage = "avg"
    /\ pend' = [pend EXCEPT ![p] = [pend[p] EXCEPT !.stage = "rating",
                                                   !.avg = AvgRating(reviews, pend[p].product_id)]]
    /\ UNCHANGED <<users, now, issued, categories, products, reviews, last>>

\* update_product_rating : product = await db.get(...); product.rating =
\* avg_rating; await db.commit(); then the handler returns
update_product_rating_commit(p) ==
    /\ pend[p] # Idle
    /\ pend[p].op \in {"create_review", "update_review", "delete_review"}
    /\ pend[p].stage = "rating"
    /\ LET r == pend[p] IN
       /\ products' = [products EXCEPT ![r.product_id].rating = r.avg]
       /\ last' = Done(r.op, r.tok, r.arg,
                       IF r.op = "create_review" THEN Created201 ELSE OK200,
                       "none", {}, r.uid, r.log)
    /\ pend' = [pend EXCEPT ![p] = Idle]
    /\ UNCHANGED <<users, now, issued, categories, reviews>>

(* ----------------------------- environment ----------------------------- *)
\* the clock
Tick ==
    /\ now < MaxTime
    /\ now' = now + 1
    /\ UNCHANGED <<users, issued, pend, categories, products, reviews, last>>

\* an account is deactivated (is_active = false) outside the endpoints above
Deactivate(i) ==
    /\ i \in DOMAIN users
    /\ users[i].is_active
    /\ users' = [users EXCEPT ![i].is_active = FALSE]
    /\ UNCHANGED <<now, issued, pend, categories, products, reviews, last>>


(* ------------------------------- Init ---------------------------------- *)
\* an empty shop with the one provisioned administrator account
Init ==
    /\ users = <<[email |-> AdminEmail, hashed_password |-> hash_password("hunter2hunter2"),
                  role |-> "admin", is_active |-> TRUE]>>
    /\ now = 0
    /\ issued = {}
    /\ pend = [p \in Procs |-> Idle]
    /\ categories = <<>>
    /\ products = <<>>
    /\ reviews = <<>>
    /\ last = Done("none", NoTok, None, OK200, "none", {}, 0, <<>>)

(* ------------------- the authentication endpoints ---------------------- *)
AuthRegister ==
    /\ Len(users) < MaxUsers
    /\ \E email \in AuthEmails, pw \in {"password123"}, role \in {"buyer", "seller"} :
          create_user_select(1, email, pw, role)
AuthCommit == create_user_commit(1)
AuthLogin ==
    /\ \E e \in AuthEmails \cup {AdminEmail}, pw \in Passwords : login(e, pw)
    /\ issued' \in Held(last'.minted, MaxTokens)
AuthRefresh ==
    /\ \E t \in Presentable : refresh_token(t)
    /\ issued' \in Held(last'.minted, MaxTokens)
AuthAccess ==
    /\ \E t \in Presentable : access_token(t)
    /\ issued' \in Held(last'.minted, MaxTokens)
AuthProtected == \E t \in Presentable, i \in 1..MaxRows : delete_review(t, i)
AuthDeactivate == \E i \in DOMAIN users : Deactivate(i)

NextAuth ==
    \/ AuthRegister
    \/ AuthCommit
    \/ AuthLogin
    \/ AuthRefresh
    \/ AuthAccess
    \/ AuthProtected
    \/ AuthDeactivate
    \/ Tick

SpecAuth == Init /\ [][NextAuth]_vars

(* ------------------- accounts, roles and token claims ------------------ *)
RoleRegister ==
    /\ Len(users) < MaxUsers
    /\ \E email \in AuthEmails, role \in Roles :
          create_user_select(1, email, "password123", role)
RoleCommit == create_user_commit(1)
RoleLogin ==
    /\ \E e \in AuthEmails \cup {AdminEmail}, pw \in Passwords : login(e, pw)
    /\ issued' \in Held(last'.minted, MaxTokens)
RoleRefresh ==
    /\ \E t \in Presentable : refresh_token(t)
    /\ issued' \in Held(last'.minted, MaxTokens)
RoleAccess ==
    /\ \E t \in Presentable : access_token(t)
    /\ issued' \in Held(last'.minted, MaxTokens)
RoleUpdateRole == \E t \in Presentable, i \in 1..MaxUsers, r \in Roles : update_role(t, i, r)
RoleDeactivate == \E i \in DOMAIN users : Deactivate(i)

NextRole ==
    \/ RoleRegister
    \/ RoleCommit
    \/ RoleLogin
    \/ RoleRefresh
    \/ RoleAccess
    \/ RoleUpdateRole
    \/ RoleDeactivate

SpecRole == Init /\ [][NextRole]_vars

(* ----------------------- concurrent registration ----------------------- *)
RegSelect ==
    /\ Len(users) <= MaxUsers
    /\ \E p \in Procs, email \in Emails, pw \in Passwords, role \in Roles :
          create_user_select(p, email, pw, role)
RegCommit == \E p \in Procs : create_user_commit(p)

NextReg ==
    \/ RegSelect
    \/ RegCommit

SpecReg == Init /\ [][NextReg]_vars

(* --------------------- the role-gated endpoints ------------------------ *)
\* request bodies tried against the gated endpoints
ShopNames == {"tea"}
ShopGrades == {5, 7}

ShopRegister ==
    /\ Len(users) < MaxUsers
    /\ \E email \in AuthEmails, role \in {"buyer", "seller"} :
          create_user_select(1, email, "password123", role)
ShopCommit == create_user_commit(1)
ShopLogin ==
    /\ \E e \in AuthEmails \cup {AdminEmail}, pw \in Passwords : login(e, pw)
    /\ issued' \in Held(last'.minted, MaxShopTokens)
ShopUpdateRole == \E t \in Presentable, i \in 1..MaxUsers, r \in Roles : update_role(t, i, r)
ShopCreateCategory ==
    /\ Len(categories) < MaxRows
    /\ \E t \in Presentable, n \in ShopNames, par \in 0..MaxRows : create_category(t, n, par)
ShopUpdateCategory ==
    \E t \in Presentable, i \in 1..MaxRows, n \in ShopNames, par \in 0..MaxRows :
        update_category(t, i, n, par)
ShopDeleteCategory == \E t \in Presentable, i \in 1..MaxRows : delete_category(t, i)
ShopCreateProduct ==
    /\ Len(products) < MaxRows
    /\ \E t \in Presentable, n \in ShopNames, c \in 1..MaxRows : create_product(t, n, c)
ShopUpdateProduct ==
    \E t \in Presentable, i \in 1..MaxRows, n \in ShopNames, c \in 1..MaxRows :
        update_product(t, i, n, c)
ShopDeleteProduct == \E t \in Presentable, i \in 1..MaxRows : delete_product(t, i)
ShopCreateReview ==
    /\ Len(reviews) < MaxRows
    /\ \E t \in Presentable, pr \in 1..MaxRows, gr \in ShopGrades : create_review(t, pr, gr)
ShopUpdateReview ==
    \E t \in Presentable, i \in 1..MaxRows, pr \in 1..MaxRows, gr \in ShopGrades :
        update_review(t, i, pr, gr)
ShopDeleteReview == \E t \in Presentable, i \in 1..MaxRows : delete_review(t, i)

NextShop ==
    \/ ShopRegister
    \/ ShopCommit
    \/ ShopLogin
    \/ ShopUpdateRole
    \/ ShopCreateCategory
    \/ ShopUpdateCategory
    \/ ShopDeleteCategory
    \/ ShopCreateProduct
    \/ ShopUpdateProduct
    \/ ShopDeleteProduct
    \/ ShopCreateReview
    \/ ShopUpdateReview
    \/ ShopDeleteReview

SpecShop == Init /\ [][NextShop]_vars

(* ------------------- concurrent review requests ------------------------ *)
SellerEmail == "s@x.com"
ReviewGrades == {2, 5}
ReviewUpdateGrades == {5}

\* a shop in use: the administrator, a seller and a buyer are registered, the
\* administrator has created a category, the seller two products in it, and
\* the buyer has just logged in and holds the access token
InitReview ==
    /\ users = <<NewUser(AdminEmail, "hunter2hunter2", "admin"),
                 NewUser(SellerEmail, "password123", "seller"),
                 NewUser("a@x.com", "password123", "buyer")>>
    /\ now = 0
    /\ issued = {create_access_token(Claims(users[3], 3))}
    /\ pend = [p \in Procs |-> Idle]
    /\ categories = <<[name |-> "tea", parent_id |-> None, is_active |-> TRUE]>>
    /\ products = <<[name |-> "tea", category_id |-> 1, seller_id |-> 2,
                     rating |-> <<0, 1>>, is_active |-> TRUE],
                    [name |-> "mug", category_id |-> 1, seller_id |-> 2,
                     rating |-> <<0, 1>>, is_active |-> TRUE]>>
    /\ reviews = <<>>
    /\ last = Done("none", NoTok, None, OK200, "none", {}, 0, <<>>)

\* review rows stored or about to be inserted
ReviewsInFlight ==
    Len(reviews) + Cardinality({p \in Procs : AtStage(p, "create_review", "write")})

RevCreateSelect ==
    /\ ReviewsInFlight < MaxReviews
    /\ \E p \in Procs, t \in issued, pr \in DOMAIN products, gr \in ReviewGrades :
          create_review_select(p, t, pr, gr)
RevCreateInsert == \E p \in Procs : create_review_insert(p)
RevUpdateSelect ==
    \E p \in Procs, t \in issued, i \in 1..MaxReviews, pr \in DOMAIN products,
       gr \in ReviewUpdateGrades :
        update_review_select(p, t, i, pr, gr)
RevUpdateWrite == \E p \in Procs : update_review_write(p)
RevDeleteSelect == \E p \in Procs, t \in issued, i \in 1..MaxReviews : delete_review_select(p, t, i)
RevDeleteWrite == \E p \in Procs : delete_review_write(p)
RevRatingSelect == \E p \in Procs : update_product_rating_select(p)
RevRatingCommit == \E p \in Procs : update_product_rating_commit(p)

NextReview ==
    \/ RevCreateSelect
    \/ RevCreateInsert
    \/ RevUpdateSelect
    \/ RevUpdateWrite
    \/ RevDeleteSelect
    \/ RevDeleteWrite
    \/ RevRatingSelect
    \/ RevRatingCommit

SpecReview == InitReview /\ [][NextReview]_vars

(* --------------------- review requests, one at a time ------------------ *)
\* no review request is in progress
Quiescent == \A p \in Procs : pend[p] = Idle

SeqCreateSelect == Quiescent /\ RevCreateSelect
SeqUpdateSelect == Quiescent /\ RevUpdateSelect
SeqDeleteSelect == Quiescent /\ RevDeleteSelect

NextReviewSeq ==
    \/ SeqCreateSelect
    \/ RevCreateInsert
    \/ SeqUpdateSelect
    \/ RevUpdateWrite
    \/ SeqDeleteSelect
    \/ RevDeleteWrite
    \/ RevRatingSelect
    \/ RevRatingCommit

SpecReviewSeq == InitReview /\ [][NextReviewSeq]_vars

(* ======================= properties: tokens ============================ *)
RefreshOps == {"refresh_token", "access_token"}
MintOps == {"login", "refresh_token", "access_token"}

IsRefresh(t) == t.sig = "ok" /\ t.typ = "refresh"
IsAccess(t) == t.sig = "ok" /\ t.typ = NoType
Unexpired(t) == now < t.exp
AccountActive(t) == ActiveUserByEmail(t.sub) # 0

\* the refresh tokens known in a state: those clients hold, and the one the
\* last refresh request presented
KnownRefresh ==
    {t \in issued : IsRefresh(t)}
      \cup (IF last.op \in RefreshOps /\ IsRefresh(last.tok) THEN {last.tok} ELSE {})

\* C1 (non-revocation): every refresh token that is unexpired and whose account
\* is active is accepted by /users/refresh-token and by /users/access-token,
\* whatever requests were served before, the ones made with that same token
\* included; a refresh token is refused only once it has expired or its
\* account is inactive or absent.
C1_NonRevocation ==
    \A t \in KnownRefresh :
        /\ (Unexpired(t) /\ AccountActive(t))
              => /\ refresh_token_result(t).resp.status = 200
                 /\ access_token_result(t).resp.status = 200
        /\ refresh_token_result(t).resp.status # 200
              => (~Unexpired(t) \/ ~AccountActive(t))

\* a refresh token was just used successfully at a later tick than its own
\* issue, the new token it produced is held next to it, and it is still accepted
C1_Witness ==
    /\ last.op = "refresh_token"
    /\ last.status = 200
    /\ last.tok \in issued
    /\ \E n \in last.minted : n \in issued /\ n # last.tok /\ n.iat > last.tok.iat
    /\ refresh_token_result(last.tok).resp.status = 200

\* C2 (active flag re-checked): for an account whose is_active flag is false,
\* login with any password, /users/refresh-token and /users/access-token with
\* any refresh token issued to it, and the principal resolver and every role
\* gate with any access token issued to it, all answer 401.
C2_InactiveRejected ==
    \A i \in DOMAIN users :
        ~users[i].is_active =>
            /\ \A pw \in Passwords : login_result(users[i].email, pw).resp.status = 401
            /\ \A t \in Presentable :
                 t.sub = users[i].email =>
                    /\ refresh_token_result(t).resp.status = 401
                    /\ refresh_token_result(t).minted = {}
                    /\ access_token_result(t).resp.status = 401
                    /\ access_token_result(t).minted = {}
                    /\ get_current_user(t).resp.status = 401
                    /\ \A r \in Roles : require_role(r, t).resp.status = 401

\* an unexpired refresh token of a deactivated account was presented and refused
C2_Witness ==
    /\ last.op = "refresh_token"
    /\ last.status = 401
    /\ last.cause = "no_account"
    /\ IsRefresh(last.tok) /\ Unexpired(last.tok)
    /\ last.tok.id \in DOMAIN users
    /\ ~users[last.tok.id].is_active
    /\ \E t \in issued : IsAccess(t) /\ Unexpired(t) /\ t.sub = last.tok.sub
                          /\ get_current_user(t).resp.status = 401

\* C3 (token-type separation): a token that is not of type "refresh" is answered
\* with the 401 of credentials_exception by /users/refresh-token and by
\* /users/access-token and mints nothing; a refresh token is refused with 401
\* by the principal resolver and by every role gate.
C3_TypeSeparation ==
    /\ \A t \in Presentable :
         /\ t.typ # "refresh" =>
               /\ refresh_token_result(t).resp = credentials_exception
               /\ refresh_token_result(t).minted = {}
               /\ access_token_result(t).resp = credentials_exception
               /\ access_token_result(t).minted = {}
         /\ t.typ = "refresh" =>
               /\ get_current_user(t).resp.status = 401
               /\ \A r \in Roles : require_role(r, t).resp.status = 401
    /\ (last.op \in RefreshOps /\ last.tok.typ # "refresh")
          => (last.status = 401 /\ last.minted = {})
    /\ (last.op = "delete_review" /\ last.tok.typ = "refresh") => last.status = 401

\* an unexpired access token of an active account was presented to
\* /users/refresh-token and refused for its type
C3_Witness ==
    /\ last.op = "refresh_token"
    /\ IsAccess(last.tok) /\ Unexpired(last.tok) /\ AccountActive(last.tok)
    /\ last.status = 401
    /\ last.cause = "wrong_type"
    /\ \E t \in issued : IsRefresh(t) /\ Unexpired(t) /\ AccountActive(t)
                          /\ get_current_user(t).cause = "wrong_type"

\* C4 (expiry boundary): a token issued at iat with lifetime TTL is accepted, its
\* account being active, at every time up to iat+TTL-1, and is refused with 401
\* at every time from iat+TTL+1 on; nothing is accepted after its exp.
C4_ExpiryBoundary ==
    \A t \in issued :
        /\ t.exp = t.iat + (IF t.typ = "refresh" THEN REFRESH_TTL ELSE ACCESS_TTL)
        /\ (IsRefresh(t) /\ AccountActive(t) /\ now <= t.iat + REFRESH_TTL - 1)
              => /\ refresh_token_result(t).resp.status = 200
                 /\ access_token_result(t).resp.status = 200
        /\ (IsAccess(t) /\ AccountActive(t) /\ now <= t.iat + ACCESS_TTL - 1)
              => get_current_user(t).resp.status = 200
        /\ (IsRefresh(t) /\ now >= t.iat + REFRESH_TTL + 1)
              => /\ refresh_token_result(t).resp.status = 401
                 /\ access_token_result(t).resp.status = 401
        /\ (IsAccess(t) /\ now >= t.iat + ACCESS_TTL + 1)
              => get_current_user(t).resp.status = 401
        /\ now > t.exp
              => /\ refresh_token_result(t).resp.status = 401
                 /\ access_token_result(t).resp.status = 401
                 /\ get_current_user(t).resp.status = 401

\* a refresh token of an active account was refused as expired one tick after
\* its expiry, and a token issued from it at iat+TTL-1 is held
C4_Witness ==
    /\ last.op = "refresh_token"
    /\ last.status = 401
    /\ last.cause = "expired"
    /\ IsRefresh(last.tok) /\ AccountActive(last.tok)
    /\ now = last.tok.iat + REFRESH_TTL + 1
    /\ \E t \in issued : t.sub = last.tok.sub /\ t.iat = last.tok.iat + REFRESH_TTL - 1

\* the failure causes the refresh endpoints can meet for the tokens in S
FailureCauses(S) == {refresh_token_result(t).cause : t \in S} \ {"none"}

\* C6 (indistinguishable failures): whatever check fails (expired, bad
\* signature, wrong type or missing sub, account not found or inactive),
\* /users/refresh-token and /users/access-token answer with one and the same
\* response: status 401, the same detail, the same WWW-Authenticate header.
C6_UniformFailure ==
    /\ \A t \in Presentable :
         /\ refresh_token_result(t).cause # "none"
               => refresh_token_result(t).resp = credentials_exception
         /\ access_token_result(t).cause # "none"
               => access_token_result(t).resp = credentials_exception
         /\ refresh_token_result(t).cause = access_token_result(t).cause
    /\ (last.op \in RefreshOps /\ last.status # 200)
          => /\ [status |-> last.status, detail |-> last.detail, hdr |-> last.hdr]
                   = credentials_exception
             /\ last.cause \in {"expired", "malformed", "wrong_type", "no_account"}

\* a refresh request just failed while the tokens at hand fail for at least
\* three different reasons, an expired one among them
C6_Witness ==
    /\ last.op \in RefreshOps
    /\ last.status = 401
    /\ Cardinality(FailureCauses(Presentable)) >= 3
    /\ "expired" \in FailureCauses(Presentable)
    /\ "no_account" \in FailureCauses(Presentable)

(* ================== properties: accounts and roles ===================== *)
\* C9 (role mutable only by an admin): in every step no account row disappears
\* or changes its e-mail; a row's role changes only in an update_role request
\* that answered 200, whose principal was an active admin passing the admin
\* gate and whose target row was active; update_role on a missing or inactive
\* target answers 404 and changes nothing; a newly registered row has role
\* buyer or seller.
C9_RoleOnlyByAdmin ==
    [][ /\ Len(users') >= Len(users)
        /\ \A i \in DOMAIN users :
             /\ users'[i].email = users[i].email
             /\ users'[i].role # users[i].role =>
                   /\ last'.op = "update_role"
                   /\ last'.status = 200
                   /\ last'.arg = i
                   /\ users[i].is_active
                   /\ get_current_admin(last'.tok).resp.status = 200
                   /\ last'.uid = get_current_admin(last'.tok).uid
                   /\ users[last'.uid].role = "admin"
        /\ \A i \in DOMAIN users' \ DOMAIN users : users'[i].role \in {"buyer", "seller"}
        /\ (last'.op = "update_role" /\ last' # last) =>
             /\ last'.status = 404 => (users' = users /\ ActiveUserById(last'.arg) = 0)
             /\ (get_current_admin(last'.tok).resp.status = 200
                   /\ ActiveUserById(last'.arg) = 0) => last'.status = 404
             /\ last'.status # 200 => users' = users
      ]_vars

\* an account that registered as buyer or seller holds the admin role after
\* an update_role request, and an update_role request of a non-admin got 403
C9_Witness ==
    /\ last.op = "update_role"
    /\ last.status = 200
    /\ last.arg > 1
    /\ last.arg \in DOMAIN users
    /\ users[last.arg].role = "admin"
    /\ last.uid # last.arg

\* C10 (claims reflect the account at issuance): every token minted by login,
\* /users/refresh-token or /users/access-token carries the e-mail, role and id
\* the account row has at that moment, whatever the presented refresh token
\* claims; tokens already held are not altered by later requests.
C10_ClaimsAtIssuance ==
    [][ /\ (last'.op \in MintOps /\ last'.status = 200
              /\ (last' # last \/ issued' # issued)) =>
             /\ last'.uid \in DOMAIN users
             /\ last'.minted # {}
             /\ \A t \in last'.minted :
                  /\ t.id = last'.uid
                  /\ t.sub = users[last'.uid].email
                  /\ t.role = users[last'.uid].role
                  /\ t.iat = now
             /\ last'.op \in RefreshOps => last'.tok.sub = users[last'.uid].email
        /\ issued' \subseteq issued \cup last'.minted
      ]_vars

\* after a role change, a refresh with a refresh token issued before it
\* produced a token with the new role; the old token still carries the old one
C10_Witness ==
    /\ last.op = "refresh_token"
    /\ last.status = 200
    /\ last.tok \in issued
    /\ last.uid \in DOMAIN users
    /\ last.tok.role # users[last.uid].role
    /\ \E n \in last.minted : n \in issued /\ n.role = users[last.uid].role
                                /\ n.role # last.tok.role

(* ===================== properties: registration ======================== *)
EmailUnique(us) == \A i, j \in DOMAIN us : i # j => us[i].email # us[j].email

\* C8 (e-mail uniqueness): in every reachable state no two account rows share
\* an e-mail, and a create_user request with a valid body that completes while
\* a row with its e-mail already exists answers 409 and leaves the store
\* unchanged, under every interleaving of the select and the commit of
\* concurrent create_user requests.
C8_EmailUniqueness ==
    [][ /\ EmailUnique(users')
        /\ ( /\ last' # last
             /\ last'.op = "create_user"
             /\ last'.cause # "validation"
             /\ UserByEmail(last'.tok.sub) # 0 ) =>
             (last'.status = 409 /\ users' = users)
      ]_vars

(* ==================== properties: gated requests ======================= *)
AdminOps == {"create_category", "update_category", "delete_category", "update_role"}
SellerOps == {"create_product", "update_product", "delete_product"}
BuyerOps == {"create_review", "update_review"}
GatedOps == AdminOps \cup SellerOps \cup BuyerOps
ProtectedOps == GatedOps \cup {"delete_review"}

RequiredRole(op) ==
    IF op \in AdminOps THEN "admin" ELSE IF op \in SellerOps THEN "seller" ELSE "buyer"

BusinessChecks == {"exists", "owner", "parent", "category", "duplicate", "write"}

Prefix(log, n) == SubSeq(log, 1, IF Len(log) < n THEN Len(log) ELSE n)

\* in log, every entry of S comes after an entry e
After(log, S, e) ==
    \A i \in DOMAIN log : log[i] \in S => \E j \in 1..(i - 1) : log[j] = e

\* C5 (role gates): a gated request of an authenticated active account reaches
\* the business logic only if the account's role is the one the operation
\* requires (admin for category create/update/delete and update_role, seller
\* for product create/update/delete, buyer for review create/update); with any
\* other role it ends in 403 and the store is unchanged.
C5_RoleGates ==
    [][ (last'.op \in GatedOps /\ (last' # last \/ store' # store)) =>
          LET g == get_current_user(last'.tok) IN
          /\ g.resp.status = 200 =>
               /\ last'.uid = g.uid
               /\ IF users[g.uid].role = RequiredRole(last'.op)
                    THEN /\ Len(last'.log) > 3
                         /\ last'.cause # "role"
                    ELSE /\ last'.status = 403
                         /\ last'.cause = "role"
                         /\ last'.log = <<"token", "account", "role">>
                         /\ store' = store
          /\ store' # store =>
               /\ g.resp.status = 200
               /\ users[g.uid].role = RequiredRole(last'.op)
      ]_vars

\* a registered account whose role is buyer called a seller-only endpoint
\* with a valid access token and got 403
C5_Witness ==
    /\ last.op \in SellerOps
    /\ last.status = 403
    /\ last.cause = "role"
    /\ last.uid > 1
    /\ last.uid \in DOMAIN users
    /\ users[last.uid].role = "buyer"
    /\ IsAccess(last.tok)
    /\ last.tok.role = "buyer"

\* C7 as claimed: every protected request verifies the token, then checks the
\* role, then runs business logic; 401, role-403 and handled are its only
\* ends; the role check precedes every business-logic read or write; a request
\* that ended 401 or 403-by-role mutates nothing.
C7_OrderingAsClaimed ==
    [][ (last'.op \in ProtectedOps /\ (last' # last \/ store' # store)) =>
          /\ Prefix(last'.log, 2) \in {<<"token">>, <<"token", "account">>}
          /\ last'.status = 401 =>
               (last'.log \in {<<"token">>, <<"token", "account">>} /\ store' = store)
          /\ last'.status # 401 => Prefix(last'.log, 3) = <<"token", "account", "role">>
          /\ After(last'.log, BusinessChecks, "role")
          /\ (last'.status = 403 /\ last'.cause = "role") =>
               (last'.log = <<"token", "account", "role">> /\ store' = store)
          /\ store' # store =>
               (last'.status \in {200, 201} /\ last'.log[Len(last'.log)] = "write")
      ]_vars

\* C7 (amended): every protected request first verifies the token and loads the
\* active account (401 otherwise); behind the admin, seller and buyer gates the
\* role check comes next and precedes every business-logic read or write;
\* delete_review, which depends on the resolver alone, looks the review up
\* first (404) and checks role and authorship after that (403), before its
\* write; a request that ended 401 or 403 mutates nothing, and a mutation
\* happens only as the last step of a request that answered 200 or 201.
C7_Ordering ==
    [][ (last'.op \in ProtectedOps /\ (last' # last \/ store' # store)) =>
          /\ Prefix(last'.log, 2) \in {<<"token">>, <<"token", "account">>}
          /\ last'.status = 401 =>
               (last'.log \in {<<"token">>, <<"token", "account">>} /\ store' = store)
          /\ (last'.status # 401 /\ last'.op \in GatedOps) =>
               /\ Prefix(last'.log, 3) = <<"token", "account", "role">>
               /\ After(last'.log, BusinessChecks, "role")
          /\ (last'.status # 401 /\ last'.op = "delete_review") =>
               /\ Prefix(last'.log, 3) = <<"token", "account", "exists">>
               /\ After(last'.log, {"role"}, "exists")
               /\ After(last'.log, {"write"}, "role")
          /\ After(last'.log, BusinessChecks \cup {"role"}, "account")
          /\ last'.status \in {401, 403} => store' = store
          /\ (last'.status = 403 /\ last'.cause = "role" /\ last'.op \in GatedOps) =>
               last'.log = <<"token", "account", "role">>
          /\ store' # store =>
               (last'.status \in {200, 201} /\ last'.log[Len(last'.log)] = "write")
      ]_vars

\* delete_review refused the caller for lack of rights after it had found the
\* review
C7_Witness ==
    /\ last.op = "delete_review"
    /\ last.status = 403
    /\ last.log = <<"token", "account", "exists", "role">>
    /\ last.arg \in DOMAIN reviews
    /\ reviews[last.arg].is_active

(* ========================= properties: login =========================== *)
\* an account with e-mail e exists, is active, and pw is its password
GoodCredentials(e, pw) ==
    \E u \in DOMAIN users :
        /\ users[u].email = e
        /\ users[u].is_active
        /\ users[u].hashed_password = hash_password(pw)

\* C12 (login): in every reachable state, for every e-mail and password,
\* POST /users/token answers 200 with exactly one access token and one refresh
\* token of that account if and only if an account with the e-mail exists, is
\* active and the password matches its stored hash; for an unknown e-mail, an
\* inactive account or a wrong password it answers one and the same 401 with
\* WWW-Authenticate: Bearer and mints nothing; and a login request never changes
\* the account store or hands out a token it did not mint.
C12_Login ==
    [][ /\ \A e \in AuthEmails \cup {AdminEmail}, pw \in Passwords :
             LET r == login_result(e, pw) IN
             IF GoodCredentials(e, pw)
               THEN /\ r.resp.status = 200
                    /\ Cardinality(r.minted) = 2
                    /\ \E a, f \in r.minted : IsAccess(a) /\ IsRefresh(f)
                    /\ \A t \in r.minted :
                         /\ t.sub = e
                         /\ t.id = r.uid
                         /\ users[r.uid].email = e
                         /\ t.iat = now
               ELSE /\ r.resp.status = 401
                    /\ r.resp.detail = "Incorrect email or password"
                    /\ r.resp.hdr = "Bearer"
                    /\ r.minted = {}
        /\ (last'.op = "login" /\ (last' # last \/ issued' # issued)) =>
             /\ store' = store
             /\ \E pw \in Passwords :
                  LET r == login_result(last'.tok.sub, pw) IN
                  /\ last'.status = r.resp.status
                  /\ last'.detail = r.resp.detail
                  /\ last'.hdr = r.resp.hdr
                  /\ last'.minted = r.minted
             /\ issued' \subseteq issued \cup last'.minted
             /\ last'.status # 200 => (last'.minted = {} /\ issued' = issued)
      ]_vars

\* a login for the e-mail of an account that exists but has been deactivated
\* was answered 401 without a token
C12_Witness ==
    /\ last.op = "login"
    /\ last.status = 401
    /\ last.hdr = "Bearer"
    /\ last.minted = {}
    /\ \E u \in DOMAIN users : users[u].email = last.tok.sub /\ ~users[u].is_active

(* ==================== properties: product ownership ==================== *)
ProductWriteOps == {"update_product", "delete_product"}

\* C13 (product ownership): update_product and delete_product change a product
\* only when the id of the account resolved from the token equals the
\* product's seller_id; a seller addressing an active product of another
\* seller gets 403 and no product changes; a product created by create_product
\* carries the id of the account that created it as seller_id; and no
\* operation changes the seller_id of an existing product or removes a product.
C13_ProductOwnership ==
    [][ /\ Len(products') >= Len(products)
        /\ \A i \in DOMAIN products : products'[i].seller_id = products[i].seller_id
        /\ (last'.op \in ProductWriteOps /\ (last' # last \/ store' # store)) =>
             LET g == get_current_user(last'.tok)
                 i == last'.arg
             IN  /\ products' # products =>
                      /\ g.resp.status = 200
                      /\ last'.uid = g.uid
                      /\ products[i].seller_id = g.uid
                      /\ \A j \in DOMAIN products : j # i => products'[j] = products[j]
                 /\ ( /\ g.resp.status = 200
                      /\ users[g.uid].role = "seller"
                      /\ ActiveProduct(i)
                      /\ products[i].seller_id # g.uid ) =>
                      /\ last'.status = 403
                      /\ last'.cause = "owner"
                      /\ store' = store
        /\ Len(products') > Len(products) =>
             LET g == get_current_user(last'.tok) IN
             /\ last'.op = "create_product"
             /\ last'.status = 201
             /\ g.resp.status = 200
             /\ Len(products') = Len(products) + 1
             /\ products'[Len(products')].seller_id = g.uid
             /\ users[g.uid].email = last'.tok.sub
      ]_vars

\* a seller addressed the active product of another seller and was refused
C13_Witness ==
    /\ last.op \in ProductWriteOps
    /\ last.status = 403
    /\ last.cause = "owner"
    /\ last.uid \in DOMAIN users
    /\ users[last.uid].role = "seller"
    /\ last.arg \in DOMAIN products
    /\ products[last.arg].is_active
    /\ products[last.arg].seller_id # last.uid
    /\ products[last.arg].seller_id \in DOMAIN users

(* ====================== properties: review rights ====================== *)
\* C14 (review deletion rights): for an authenticated caller and an active
\* review, delete_review deactivates the review if and only if the caller is
\* an admin, or is the review's author and currently has role buyer; every
\* other caller (a seller, a buyer who is not the author, the author whose
\* role is no longer buyer) gets 403 and neither the reviews nor the product
\* ratings change; update_review changes a review only when the caller is a
\* buyer and the review's author, and changes no other review.
C14_ReviewRights ==
    [][ /\ (last'.op = "delete_review" /\ (last' # last \/ store' # store)) =>
             LET g == get_current_user(last'.tok)
                 i == last'.arg
             IN  /\ (g.resp.status = 200 /\ ActiveReview(i)) =>
                      IF (users[g.uid].role = "admin"
                            \/ (reviews[i].user_id = g.uid /\ users[g.uid].role = "buyer"))
                        THEN /\ last'.status = 200
                             /\ reviews' = [reviews EXCEPT ![i].is_active = FALSE]
                        ELSE /\ last'.status = 403
                             /\ reviews' = reviews
                             /\ products' = products
                 /\ reviews' # reviews =>
                      /\ g.resp.status = 200
                      /\ ActiveReview(i)
                      /\ (users[g.uid].role = "admin"
                            \/ (reviews[i].user_id = g.uid /\ users[g.uid].role = "buyer"))
        /\ (last'.op = "update_review" /\ reviews' # reviews) =>
             LET g == get_current_user(last'.tok)
                 i == last'.arg
             IN  /\ g.resp.status = 200
                 /\ users[g.uid].role = "buyer"
                 /\ ActiveReview(i)
                 /\ reviews[i].user_id = g.uid
                 /\ reviews'[i].user_id = g.uid
                 /\ Len(reviews') = Len(reviews)
                 /\ \A j \in DOMAIN reviews : j # i => reviews'[j] = reviews[j]
      ]_vars

\* the author of an active review, whose role is no longer buyer, asked to
\* delete it and was refused
C14_Witness ==
    /\ last.op = "delete_review"
    /\ last.status = 403
    /\ last.arg \in DOMAIN reviews
    /\ reviews[last.arg].is_active
    /\ reviews[last.arg].user_id = last.uid
    /\ last.uid \in DOMAIN users
    /\ users[last.uid].role = "seller"

(* ======================= properties: soft delete ======================= *)
CategoryRowOps == {"update_category", "delete_category"}
ProductRowOps == {"update_product", "delete_product"}
ReviewRowOps == {"update_review", "delete_review"}

\* rows are kept, and an inactive row stays inactive
Monotone(old, new) ==
    /\ Len(new) >= Len(old)
    /\ \A i \in DOMAIN old : ~old[i].is_active => ~new[i].is_active

\* the table an update or delete operation addresses
TargetTable(op) ==
    IF op \in CategoryRowOps THEN categories
    ELSE IF op \in ProductRowOps THEN products ELSE reviews

\* the request got past its dependency: the resolver for delete_review, the
\* role gate for the others
PastDependency(op, tok) ==
    LET g == get_current_user(tok) IN
    /\ g.resp.status = 200
    /\ op \in GatedOps => users[g.uid].role = RequiredRole(op)

\* C17 (soft delete is monotone): no operation removes a category, product or
\* review row; delete_category, delete_product and delete_review only set
\* is_active of the addressed row to false (delete_review also recomputes the
\* rating of the review's product); no operation sets is_active back to true,
\* so an inactive row stays inactive; and an update or delete that gets past authentication
\* and the role gate and addresses a missing or inactive row answers 404 and
\* leaves the store unchanged, a second delete of the same id included.
C17_SoftDelete ==
    [][ /\ Monotone(categories, categories')
        /\ Monotone(products, products')
        /\ Monotone(reviews, reviews')
        /\ (last'.op = "delete_category" /\ categories' # categories) =>
             categories' = [categories EXCEPT ![last'.arg].is_active = FALSE]
        /\ (last'.op = "delete_product" /\ products' # products) =>
             products' = [products EXCEPT ![last'.arg].is_active = FALSE]
        /\ (last'.op = "delete_review" /\ reviews' # reviews) =>
             reviews' = [reviews EXCEPT ![last'.arg].is_active = FALSE]
        /\ ( /\ last'.op \in CategoryRowOps \cup ProductRowOps \cup ReviewRowOps
             /\ (last' # last \/ store' # store) ) =>
             LET t == TargetTable(last'.op)
                 i == last'.arg
             IN  (i \notin DOMAIN t \/ ~t[i].is_active) =>
                   /\ store' = store
                   /\ last'.status \in {401, 403, 404}
                   /\ PastDependency(last'.op, last'.tok) => last'.status = 404
      ]_vars

\* a category that had been deleted was addressed by a second delete, which
\* answered 404
C17_Witness ==
    /\ last.op = "delete_category"
    /\ last.status = 404
    /\ last.arg \in DOMAIN categories
    /\ ~categories[last.arg].is_active

(* ===================== properties: reviews and ratings ================= *)
ReviewOps == {"create_review", "update_review", "delete_review"}

\* C15 (rating consistency): whenever a create_review, update_review or
\* delete_review has completed and no other review request is in progress,
\* the rating of every product equals the average grade of that product's
\* active reviews, or 0 when it has none; this covers the product a review
\* belonged to before an update_review gave it another product_id.
C15_RatingConsistency ==
    (Quiescent /\ last.op \in ReviewOps /\ last.status \in {200, 201}) =>
        \A i \in DOMAIN products : products[i].rating = AvgRating(reviews, i)

\* no two active reviews by one account for one product
OneActiveReview(rs) ==
    \A i, j \in DOMAIN rs :
        (i # j /\ rs[i].is_active /\ rs[j].is_active) =>
            ~(rs[i].user_id = rs[j].user_id /\ rs[i].product_id = rs[j].product_id)

\* C16 (one active review per buyer per product): in every reachable state
\* there is at most one active review for each pair of account and product,
\* after any sequence and any interleaving of create_review, update_review
\* and delete_review requests; and a create_review answered 409 changes
\* nothing.
C16_OneActiveReview ==
    [][ /\ OneActiveReview(reviews')
        /\ (last'.op = "create_review" /\ last' # last /\ last'.status = 409) =>
             store' = store
      ]_vars

(* ======================= properties: live role ========================= *)
\* delete_review line 117 on the account row a: admin, or author with role buyer
MayDeleteReview(a, uid, r) == a.role = "admin" \/ (r.user_id = uid /\ a.role = "buyer")

TypeOK ==
    /\ now \in 0..MaxTime
    /\ Len(users) <= MaxUsers + 2
    /\ \A i \in DOMAIN users : users[i].role \in Roles
    /\ Cardinality(issued) <= MaxTokens
    /\ Len(categories) <= MaxRows
    /\ Len(products) <= MaxRows + 1
    /\ Len(reviews) <= MaxReviews
    /\ \A i \in DOMAIN reviews : reviews[i].product_id \in DOMAIN products

====
